---- MODULE Spec2Model ----
(***************************************************************************)
(* Model of the two codecs of ros2_unbag's Rust utility layer:             *)
(*   - pack_pointcloud_data  (rust_utils/src/lib.rs, the record repacker)  *)
(*   - serialize_yaml / convert_pyany_to_yaml_value (rust_utils/src/lib.rs *)
(*     and, verbatim, rust_speedups/src/lib.rs; the structured-value       *)
(*     serializer).                                                        *)
(* Both are pure functions.  Each has its own specification: Init draws    *)
(* the arguments of one call from bounded sets, the action is the call.    *)
(*                                                                         *)
(* Domain of the explored arguments: offsets and strides far below         *)
(* usize::MAX (i * point_step and base + offsets[j] do not wrap), Python   *)
(* ints within i64, str objects that are valid Unicode (to_str succeeds),  *)
(* dictionary keys that are str, int, bool, None or an object whose        *)
(* __str__ raises.  serde_yaml is modelled as of 0.9: an insertion-ordered *)
(* Mapping, and an emitter that single-quotes a string which would be read *)
(* back as null, a boolean or a number.                                    *)
(***************************************************************************)
EXTENDS Integers, Sequences, FiniteSets, TLC

VARIABLES pc, data, offsets, fmts, point_step, pack_ret, obj, yaml_ret

vars == <<pc, data, offsets, fmts, point_step, pack_ret, obj, yaml_ret>>

(***************************************************************************)
(* Bounds of the explored inputs.                                          *)
(***************************************************************************)
MaxBuf == 9
MaxFields == 2
MaxNodes == 3
MaxNest == 2

RECURSIVE SeqsUpTo(_, _)
SeqsUpTo(S, n) ==
  IF n = 0 THEN {<<>>}
  ELSE LET shorter == SeqsUpTo(S, n - 1)
       IN  shorter \cup {Append(s, x) : s \in {t \in shorter : Len(t) = n - 1}, x \in S}

(***************************************************************************)
(* ----------------------- Record field repacker ------------------------- *)
(***************************************************************************)

\* A byte buffer whose bytes are pairwise distinct and cover both halves of
\* the byte range, so that a byte copied from the wrong place is visible.
PatternByte(seed, k) == (seed + 53 * k) % 256
PatternBuffer(seed, n) == [k \in 1..n |-> PatternByte(seed, k - 1)]

\* One record of stride 8: byte 0 = 0x2A, bytes 4..7 = 1.5f32 little-endian.
ScenarioBuffer == <<42, 0, 0, 0, 0, 0, 192, 63>>

\* Three records of stride 6, without and with five trailing bytes.
ThreeRecords == PatternBuffer(200, 18)
ThreeRecordsAndFive == PatternBuffer(200, 23)

Buffers ==
  {PatternBuffer(42, n) : n \in 0..MaxBuf}
    \cup {ScenarioBuffer, ThreeRecords, ThreeRecordsAndFive}

\* `data: &PyAny`: a bytes-like object, or some other Python object.
BytesLike(raw) == [bytes_like |-> TRUE, raw |-> raw]
NotBytesLike == [bytes_like |-> FALSE, raw |-> <<>>]
DataArgs == {BytesLike(b) : b \in Buffers} \cup {NotBytesLike}

SupportedFmts == {"B", "H", "I", "b", "h", "i", "f"}
FmtArgs == SupportedFmts \cup {"d"}
OffsetArgs == {0, 1, 4}
StepArgs == {0, 1, 2, 4, 6, 8}

\* Results of a call as seen by the Python caller.
PackOk(out) == [kind |-> "Ok", out |-> out, msg |-> ""]
PackValueError(msg) == [kind |-> "ValueError", out |-> <<>>, msg |-> msg]
PackPanic(msg) == [kind |-> "Panic", out |-> <<>>, msg |-> msg]
NoRet == [kind |-> "None", out |-> <<>>, msg |-> ""]

MsgNotBytes == "Expected bytes-like object for 'data'"
MsgMismatch == "offsets and fmts must have the same length"
MsgUnsupported(fmt) == "Unsupported fmt: " \o fmt
MsgDivZero == "attempt to divide by zero"
MsgIndex == "index out of bounds"

\* Number of bytes a match arm reads and writes.
Width(fmt) ==
  CASE fmt \in {"B", "b"} -> 1
    [] fmt \in {"H", "h"} -> 2
    [] fmt \in {"I", "i", "f"} -> 4
    [] OTHER -> 0

\* raw[off], raw[off..off+n]: Rust indexes from 0, the sequence from 1.
InBounds(raw, off, n) == off + n <= Len(raw)
Slice(raw, off, n) == [k \in 1..n |-> raw[off + k]]

\* {u8,i8,u16,i16,u32,i32,f32} decoding of little-endian bytes.  A 32-bit
\* unsigned word is kept as two 16-bit halves; f32::from_le_bytes is
\* f32::from_bits of the u32, and write_f32 writes to_bits of it.
SignedByte(b) == IF b >= 128 THEN b - 256 ELSE b
u8_from(b) == b[1]
i8_from(b) == SignedByte(b[1])
u16_from_le_bytes(b) == b[1] + 256 * b[2]
i16_from_le_bytes(b) == b[1] + 256 * SignedByte(b[2])
u32_from_le_bytes(b) == [lo |-> b[1] + 256 * b[2], hi |-> b[3] + 256 * b[4]]
i32_from_le_bytes(b) == b[1] + 256 * b[2] + 65536 * b[3] + 16777216 * SignedByte(b[4])
f32_from_le_bytes(b) == [bits |-> u32_from_le_bytes(b)]

\* byteorder::WriteBytesExt on a Vec<u8>: the bytes appended.
write_u8(v) == <<v>>
write_i8(v) == <<v % 256>>
write_u16_le(v) == <<v % 256, v \div 256>>
write_i16_le(v) == <<v % 256, (v \div 256) % 256>>
write_u32_le(v) == <<v.lo % 256, v.lo \div 256, v.hi % 256, v.hi \div 256>>
write_i32_le(v) ==
  <<v % 256, (v \div 256) % 256, (v \div 65536) % 256, (v \div 16777216) % 256>>
write_f32_le(v) == write_u32_le(v.bits)

\* One match arm: the bytes written for a field whose bytes are in bounds.
FieldBytes(raw, off, fmt) ==
  CASE fmt = "B" -> write_u8(u8_from(Slice(raw, off, 1)))
    [] fmt = "H" -> write_u16_le(u16_from_le_bytes(Slice(raw, off, 2)))
    [] fmt = "I" -> write_u32_le(u32_from_le_bytes(Slice(raw, off, 4)))
    [] fmt = "b" -> write_i8(i8_from(Slice(raw, off, 1)))
    [] fmt = "h" -> write_i16_le(i16_from_le_bytes(Slice(raw, off, 2)))
    [] fmt = "i" -> write_i32_le(i32_from_le_bytes(Slice(raw, off, 4)))
    [] fmt = "f" -> write_f32_le(f32_from_le_bytes(Slice(raw, off, 4)))

\* Variant: the record index is used as the base, the stride is dropped.
RecordBase_NoStride(i, step) == i

\* Base offset of record i.
RecordBase(i, step) == i * step

\* The inner loop, from field j (0-based) of record i on.
RECURSIVE PackFields(_, _, _, _, _, _)
PackFields(raw, offs, fs, base, j, out) ==
  IF j >= Len(fs) THEN PackOk(out)
  ELSE LET fmt == fs[j + 1]
           off == base + offs[j + 1]
       IN  IF fmt \notin SupportedFmts THEN PackValueError(MsgUnsupported(fmt))
           ELSE IF ~InBounds(raw, off, Width(fmt)) THEN PackPanic(MsgIndex)
           ELSE PackFields(raw, offs, fs, base, j + 1, out \o FieldBytes(raw, off, fmt))

\* The outer loop, from record i on.
RECURSIVE PackPoints(_, _, _, _, _, _, _)
PackPoints(raw, offs, fs, step, num_points, i, out) ==
  IF i >= num_points THEN PackOk(out)
  ELSE LET r == PackFields(raw, offs, fs, RecordBase(i, step), 0, out)
       IN  IF r.kind # "Ok" THEN r
           ELSE PackPoints(raw, offs, fs, step, num_points, i + 1, r.out)

\* Variant: the number of points is computed before the lengths are compared.
PackPointcloudData_DivideFirst(d, offs, fs, step) ==
  IF ~d.bytes_like THEN PackValueError(MsgNotBytes)
  ELSE IF step = 0 THEN PackPanic(MsgDivZero)
  ELSE IF Len(offs) # Len(fs) THEN PackValueError(MsgMismatch)
  ELSE PackPoints(d.raw, offs, fs, step, Len(d.raw) \div step, 0, <<>>)

\* pack_pointcloud_data(py, data, offsets, fmts, point_step)
PackPointcloudData(d, offs, fs, step) ==
  IF ~d.bytes_like THEN PackValueError(MsgNotBytes)
  ELSE IF Len(offs) # Len(fs) THEN PackValueError(MsgMismatch)
  ELSE IF step = 0 THEN PackPanic(MsgDivZero)
  ELSE PackPoints(d.raw, offs, fs, step, Len(d.raw) \div step, 0, <<>>)

InitPack ==
  /\ pc = "call"
  /\ data \in DataArgs
  /\ offsets \in SeqsUpTo(OffsetArgs, MaxFields)
  /\ fmts \in SeqsUpTo(FmtArgs, MaxFields)
  /\ point_step \in StepArgs
  /\ pack_ret = NoRet
  /\ obj = <<>>
  /\ yaml_ret = NoRet

pack_pointcloud_data ==
  /\ pc = "call"
  /\ pack_ret' = PackPointcloudData(data, offsets, fmts, point_step)
  /\ pc' = "done"
  /\ UNCHANGED <<data, offsets, fmts, point_step, obj, yaml_ret>>

NextPack == pack_pointcloud_data

SpecPack == InitPack /\ [][NextPack]_vars

(***************************************************************************)
(* Properties of the record field repacker (checked under SpecPack).       *)
(***************************************************************************)
PackDone == pc = "done"
Raw == data.raw
EqualLengths == Len(offsets) = Len(fmts)
Fields == 1..Len(fmts)

\* Byte width of a type tag as documented: U8/I8 = 1, U16/I16 = 2,
\* U32/I32/F32 = 4.
TagWidth(tag) ==
  IF tag \in {"B", "b"} THEN 1 ELSE IF tag \in {"H", "h"} THEN 2 ELSE 4

AllSupported == \A j \in Fields : fmts[j] \in {"B", "H", "I", "b", "h", "i", "f"}

RECURSIVE WidthsBefore(_)
WidthsBefore(j) == IF j <= 1 THEN 0 ELSE WidthsBefore(j - 1) + TagWidth(fmts[j - 1])
SumOfWidths == WidthsBefore(Len(fmts) + 1)

\* N = floor(len(buffer) / point_step), for point_step > 0.
NumRecords == Len(Raw) \div point_step
Records == 0..(NumRecords - 1)

\* The byte range of field j of record i lies inside the buffer.
RangeInBuffer(i, j) == i * point_step + offsets[j] + TagWidth(fmts[j]) <= Len(Raw)

WellFormedCall ==
  /\ data.bytes_like
  /\ point_step > 0
  /\ EqualLengths
  /\ AllSupported
  /\ \A i \in Records : \A j \in Fields : RangeInBuffer(i, j)

\* C1: a well-formed call returns N * sum(widths) bytes; the bytes of field j
\* of record i are the input bytes at i * point_step + offsets[j], placed at
\* i * sum(widths) + (widths of the fields before j); the stride-8 scenario
\* of one U8 and one F32 field yields 0x2A and the four bytes of 1.5f32.
C1_DenseReprojection ==
  /\ (PackDone /\ WellFormedCall) =>
        /\ pack_ret.kind = "Ok"
        /\ Len(pack_ret.out) = NumRecords * SumOfWidths
        /\ \A i \in Records : \A j \in Fields : \A k \in 1..TagWidth(fmts[j]) :
              pack_ret.out[i * SumOfWidths + WidthsBefore(j) + k]
                = Raw[i * point_step + offsets[j] + k]
  /\ (PackDone /\ data = BytesLike(ScenarioBuffer) /\ point_step = 8
         /\ offsets = <<0, 4>> /\ fmts = <<"B", "f">>) =>
        pack_ret = PackOk(<<42, 0, 0, 192, 63>>)

\* Three records of two fields and five trailing bytes have been repacked.
C1_Witness ==
  /\ PackDone /\ WellFormedCall
  /\ Raw = ThreeRecordsAndFive /\ point_step = 6
  /\ offsets = <<4, 0>> /\ fmts = <<"H", "f">>
  /\ Len(pack_ret.out) = 18

\* C2: with offset and tag lists of different lengths the call fails with
\* the length-mismatch error and returns no bytes, for every buffer and
\* every stride.
C2_LengthMismatchFails ==
  (PackDone /\ data.bytes_like /\ ~EqualLengths) =>
      pack_ret = PackValueError(MsgMismatch)

\* A mismatching descriptor with an empty buffer and stride zero was rejected.
C2_Witness ==
  /\ PackDone /\ ~EqualLengths
  /\ data = BytesLike(<<>>) /\ point_step = 0
  /\ pack_ret.kind = "ValueError"

\* C3: a call with point_step = 0 and equal-length lists fails with a typed
\* error returned to the caller, not with a crash.
C3_ZeroStrideTypedError ==
  (PackDone /\ data.bytes_like /\ EqualLengths /\ point_step = 0) =>
      pack_ret.kind = "ValueError"

\* C4: when, for some record i < N and field j, the byte range of the field
\* does not lie within the buffer, the call fails with a typed error and
\* returns no bytes.
C4_OutOfBoundsTypedError ==
  (/\ PackDone /\ data.bytes_like /\ EqualLengths /\ point_step > 0
   /\ AllSupported
   /\ \E i \in Records : \E j \in Fields : ~RangeInBuffer(i, j)) =>
      (pack_ret.kind = "ValueError" /\ pack_ret.out = <<>>)

\* C5: when a field's offset plus width exceeds point_step and the buffer
\* holds a record, the call fails (so no field read returns bytes of the
\* next record or of the trailing bytes).
C5_FieldBeyondStrideFails ==
  (/\ PackDone /\ data.bytes_like /\ EqualLengths /\ point_step > 0
   /\ AllSupported /\ NumRecords >= 1
   /\ \E j \in Fields : offsets[j] + TagWidth(fmts[j]) > point_step) =>
      pack_ret.kind # "Ok"

\* C6: when the tag list holds an unsupported tag, the call fails with the
\* unsupported-type error naming such a tag, for every buffer.
C6_UnsupportedTagFails ==
  (/\ PackDone /\ data.bytes_like /\ EqualLengths
   /\ point_step > 0
   /\ \E j \in Fields : fmts[j] \notin {"B", "H", "I", "b", "h", "i", "f"}) =>
      /\ pack_ret.kind = "ValueError"
      /\ \E j \in Fields :
            /\ fmts[j] \notin {"B", "H", "I", "b", "h", "i", "f"}
            /\ pack_ret.msg = MsgUnsupported(fmts[j])

(***************************************************************************)
(* -------------------- Structured value serializer ---------------------- *)
(* Text is a sequence of one-character strings.                            *)
(***************************************************************************)

\* Python objects: a type tag and a payload.
PyDict(entries) == [t |-> "dict", v |-> entries]
PyList(items) == [t |-> "list", v |-> items]
PyBool(b) == [t |-> "bool", v |-> b]
PyInt(n) == [t |-> "int", v |-> n]
PyFloat(f) == [t |-> "float", v |-> f]
PyStr(chars) == [t |-> "str", v |-> chars]
PyNone == [t |-> "NoneType", v |-> <<>>]
\* The empty tuple: neither dict, list, bool, int, float nor str.
PyTuple == [t |-> "tuple", v |-> <<>>]
\* An object whose __str__ raises.
PyUnprintable == [t |-> "Unprintable", v |-> <<>>]

\* A 64-bit float: (-1)^neg * m * 10^(-e) with m not a multiple of 10
\* unless e = 0, an infinity, or a NaN.
Finite(neg, m, e) == [cls |-> "finite", neg |-> neg, m |-> m, e |-> e]
Infinity(neg) == [cls |-> "inf", neg |-> neg, m |-> 0, e |-> 0]
NaN == [cls |-> "nan", neg |-> FALSE, m |-> 0, e |-> 0]

\* serde_yaml::Value
YMapping(entries) == [t |-> "Mapping", v |-> entries]
YSequence(items) == [t |-> "Sequence", v |-> items]
YBool(b) == [t |-> "Bool", v |-> b]
YNumber(n) == [t |-> "Number", v |-> n]
YString(chars) == [t |-> "String", v |-> chars]
YNull == [t |-> "Null", v |-> <<>>]

Digit(d) == <<"0", "1", "2", "3", "4", "5", "6", "7", "8", "9">>[d + 1]
Digits == {Digit(d) : d \in 0..9}
DigitValue(c) == CHOOSE d \in 0..9 : Digit(d) = c

RECURSIVE NatToChars(_)
NatToChars(n) == IF n < 10 THEN <<Digit(n)>> ELSE Append(NatToChars(n \div 10), Digit(n % 10))

\* Decimal rendering of an integer (itoa, Python's str(int)).
IntToChars(n) == IF n < 0 THEN <<"-">> \o NatToChars(-n) ELSE NatToChars(n)

RECURSIVE Pow10(_)
Pow10(e) == IF e = 0 THEN 1 ELSE 10 * Pow10(e - 1)

RECURSIVE ZeroPad(_, _)
ZeroPad(chars, n) == IF Len(chars) >= n THEN chars ELSE ZeroPad(<<"0">> \o chars, n)

\* f64::to_string: shortest digits, no exponent, no ".0" on integral
\* values, "NaN", "inf", "-inf".
FloatToString(f) ==
  CASE f.cls = "nan" -> <<"N", "a", "N">>
    [] f.cls = "inf" -> (IF f.neg THEN <<"-">> ELSE <<>>) \o <<"i", "n", "f">>
    [] OTHER ->
         (IF f.neg THEN <<"-">> ELSE <<>>)
           \o NatToChars(f.m \div Pow10(f.e))
           \o (IF f.e = 0 THEN <<>>
               ELSE <<".">> \o ZeroPad(NatToChars(f.m % Pow10(f.e)), f.e))

Fail == [ok |-> FALSE, val |-> <<>>]
Ok(val) == [ok |-> TRUE, val |-> val]

\* obj.extract::<bool>(): only a Python bool.
ExtractBool(o) == IF o.t = "bool" THEN Ok(o.v) ELSE Fail

\* Variant: the integer probe also accepts a float, truncating it (__int__).
ExtractI64_Truncating(o) ==
  CASE o.t = "int" -> Ok(o.v)
    [] o.t = "bool" -> Ok(IF o.v THEN 1 ELSE 0)
    [] o.t = "float" /\ o.v.cls = "finite" ->
         Ok((IF o.v.neg THEN -1 ELSE 1) * (o.v.m \div Pow10(o.v.e)))
    [] OTHER -> Fail

\* obj.extract::<i64>(): objects with __index__ (int, bool).
ExtractI64(o) ==
  CASE o.t = "int" -> Ok(o.v)
    [] o.t = "bool" -> Ok(IF o.v THEN 1 ELSE 0)
    [] OTHER -> Fail

\* obj.extract::<f64>(): float, or anything PyFloat_AsDouble converts.
ExtractF64(o) ==
  CASE o.t = "float" -> Ok(o.v)
    [] o.t = "int" -> Ok(Finite(o.v < 0, IF o.v < 0 THEN -o.v ELSE o.v, 0))
    [] o.t = "bool" -> Ok(Finite(FALSE, IF o.v THEN 1 ELSE 0, 0))
    [] OTHER -> Fail

\* obj.str(): Python's str() of the object.
PyStrOf(o) ==
  CASE o.t = "str" -> Ok(o.v)
    [] o.t = "int" -> Ok(IntToChars(o.v))
    [] o.t = "bool" -> Ok(IF o.v THEN <<"T", "r", "u", "e">> ELSE <<"F", "a", "l", "s", "e">>)
    [] o.t = "NoneType" -> Ok(<<"N", "o", "n", "e">>)
    [] o.t = "tuple" -> Ok(<<"(", ")">>)
    [] OTHER -> Fail

\* Variant: an existing key keeps its old value.
MappingInsert_KeepFirst(map, key, value) ==
  IF \E i \in 1..Len(map) : map[i][1] = key THEN map ELSE Append(map, <<key, value>>)

\* Mapping::insert: an existing key keeps its place and takes the new value.
MappingInsert(map, key, value) ==
  IF \E i \in 1..Len(map) : map[i][1] = key
  THEN [i \in 1..Len(map) |-> IF map[i][1] = key THEN <<key, value>> ELSE map[i]]
  ELSE Append(map, <<key, value>>)

\* Variant: the integer probe runs before the boolean probe.
ConvertScalar_IntFirst(o) ==
  IF ExtractI64(o).ok THEN YNumber(ExtractI64(o).val)
  ELSE IF ExtractBool(o).ok THEN YBool(ExtractBool(o).val)
  ELSE IF ExtractF64(o).ok THEN YString(FloatToString(ExtractF64(o).val))
  ELSE IF PyStrOf(o).ok THEN YString(PyStrOf(o).val)
  ELSE YNull

\* The scalar probes of convert_pyany_to_yaml_value, in source order.
ConvertScalar(o) ==
  IF ExtractBool(o).ok THEN YBool(ExtractBool(o).val)
  ELSE IF ExtractI64(o).ok THEN YNumber(ExtractI64(o).val)
  ELSE IF ExtractF64(o).ok THEN YString(FloatToString(ExtractF64(o).val))
  ELSE IF PyStrOf(o).ok THEN YString(PyStrOf(o).val)
  ELSE YNull

RECURSIVE convert_pyany_to_yaml_value(_), ConvertEntries(_, _, _), ConvertItems(_, _, _)

\* for (k, v) in dict.iter() { ... map.insert(key, value); }
ConvertEntries(entries, i, map) ==
  IF i > Len(entries) THEN Ok(YMapping(map))
  ELSE LET key == PyStrOf(entries[i][1])
           value == convert_pyany_to_yaml_value(entries[i][2])
       IN  IF ~key.ok THEN Fail
           ELSE IF ~value.ok THEN Fail
           ELSE ConvertEntries(entries, i + 1, MappingInsert(map, YString(key.val), value.val))

\* for item in list.iter() { vec.push(...) }
ConvertItems(items, i, vec) ==
  IF i > Len(items) THEN Ok(YSequence(vec))
  ELSE LET value == convert_pyany_to_yaml_value(items[i])
       IN  IF ~value.ok THEN Fail
           ELSE ConvertItems(items, i + 1, Append(vec, value.val))

convert_pyany_to_yaml_value(o) ==
  IF o.t = "dict" THEN ConvertEntries(o.v, 1, <<>>)
  ELSE IF o.t = "list" THEN ConvertItems(o.v, 1, <<>>)
  ELSE Ok(ConvertScalar(o))

\* The emitted document: block mappings and sequences over scalars that
\* are written plain or single-quoted.
MapNode(entries) == [t |-> "map", v |-> entries]
SeqNode(items) == [t |-> "seq", v |-> items]
Plain(chars) == [t |-> "plain", v |-> chars]
Quoted(chars) == [t |-> "quoted", v |-> chars]

NullTexts == {<<>>, <<"~">>, <<"n", "u", "l", "l">>, <<"N", "u", "l", "l">>, <<"N", "U", "L", "L">>}
TrueTexts == {<<"t", "r", "u", "e">>, <<"T", "r", "u", "e">>, <<"T", "R", "U", "E">>}
FalseTexts ==
  {<<"f", "a", "l", "s", "e">>, <<"F", "a", "l", "s", "e">>, <<"F", "A", "L", "S", "E">>}
InfTexts == {<<".", "i", "n", "f">>, <<".", "I", "n", "f">>, <<".", "I", "N", "F">>}
NanTexts == {<<".", "n", "a", "n">>, <<".", "N", "a", "N">>, <<".", "N", "A", "N">>}

Unsigned(chars) ==
  IF Len(chars) > 0 /\ chars[1] \in {"+", "-"} THEN Tail(chars) ELSE chars

IsIntText(chars) ==
  LET u == Unsigned(chars)
  IN  Len(u) > 0 /\ \A k \in 1..Len(u) : u[k] \in Digits

IsFloatText(chars) ==
  LET u == Unsigned(chars)
  IN  \/ u \in InfTexts
      \/ chars \in NanTexts
      \/ /\ Cardinality({k \in 1..Len(u) : u[k] = "."}) = 1
         /\ \E k \in 1..Len(u) : u[k] \in Digits
         /\ \A k \in 1..Len(u) : u[k] \in Digits \cup {"."}

RECURSIVE DigitsToNat(_)
DigitsToNat(u) ==
  IF Len(u) = 0 THEN 0
  ELSE 10 * DigitsToNat(SubSeq(u, 1, Len(u) - 1)) + DigitValue(u[Len(u)])

TextToInt(chars) ==
  IF chars[1] = "-" THEN -DigitsToNat(Unsigned(chars)) ELSE DigitsToNat(Unsigned(chars))

\* What a plain (unquoted) scalar denotes: null, boolean, integer, float,
\* or else text.  A float read from a plain scalar is kept as its literal.
ResolvePlain(chars) ==
  CASE chars \in NullTexts -> PyNone
    [] chars \in TrueTexts -> PyBool(TRUE)
    [] chars \in FalseTexts -> PyBool(FALSE)
    [] IsIntText(chars) -> PyInt(TextToInt(chars))
    [] IsFloatText(chars) -> PyFloat([cls |-> "literal", text |-> chars])
    [] OTHER -> PyStr(chars)

\* Serializer::serialize_str: quote a string that would otherwise be read
\* back as something else.
EmitString(chars) ==
  IF ResolvePlain(chars).t # "str" THEN Quoted(chars) ELSE Plain(chars)

\* serde_yaml::to_string(&value)
RECURSIVE to_string(_)
to_string(y) ==
  CASE y.t = "Mapping" ->
         MapNode([i \in 1..Len(y.v) |-> <<to_string(y.v[i][1]), to_string(y.v[i][2])>>])
    [] y.t = "Sequence" -> SeqNode([i \in 1..Len(y.v) |-> to_string(y.v[i])])
    [] y.t = "Bool" -> Plain(IF y.v THEN <<"t", "r", "u", "e">> ELSE <<"f", "a", "l", "s", "e">>)
    [] y.t = "Number" -> Plain(IntToChars(y.v))
    [] y.t = "String" -> EmitString(y.v)
    [] y.t = "Null" -> Plain(<<"n", "u", "l", "l">>)

\* Reading the document back into a structured value.
RECURSIVE ParseMarkup(_)
ParseMarkup(node) ==
  CASE node.t = "map" ->
         PyDict([i \in 1..Len(node.v) |-> <<ParseMarkup(node.v[i][1]), ParseMarkup(node.v[i][2])>>])
    [] node.t = "seq" -> PyList([i \in 1..Len(node.v) |-> ParseMarkup(node.v[i])])
    [] node.t = "quoted" -> PyStr(node.v)
    [] node.t = "plain" -> ResolvePlain(node.v)

YamlOk(value, markup) == [kind |-> "Ok", value |-> value, markup |-> markup]
YamlErr == [kind |-> "PyErr", value |-> YNull, markup |-> Plain(<<>>)]

\* serialize_yaml(dict)
SerializeYaml(d) ==
  LET value == convert_pyany_to_yaml_value(d)
  IN  IF ~value.ok THEN YamlErr ELSE YamlOk(value.val, to_string(value.val))

(***************************************************************************)
(* Inputs of serialize_yaml: dictionaries.                                 *)
(***************************************************************************)
TextA == <<"a">>
TextB == <<"b">>
Text1 == <<"1">>
TextTrue == <<"T", "r", "u", "e">>
TextNone == <<"N", "o", "n", "e">>

Bools == {PyBool(TRUE), PyBool(FALSE)}
Ints == {PyInt(0), PyInt(1), PyInt(-12), PyInt(305)}
Floats ==
  {PyFloat(Finite(FALSE, 25, 1)), PyFloat(Finite(FALSE, 1, 0)), PyFloat(Finite(TRUE, 0, 0)),
   PyFloat(Finite(FALSE, 5, 2)), PyFloat(Finite(TRUE, 12345, 1)),
   PyFloat(Infinity(FALSE)), PyFloat(Infinity(TRUE)), PyFloat(NaN)}
Texts ==
  {PyStr(TextA), PyStr(Text1), PyStr(<<>>), PyStr(<<"t", "r", "u", "e">>),
   PyStr(<<"n", "u", "l", "l">>), PyStr(<<"~">>), PyStr(<<"2", ".", "5">>),
   PyStr(<<"-", "1", "2">>), PyStr(TextNone), PyStr(<<"i", "n", "f">>)}
Scalars == Bools \cup Ints \cup Floats \cup Texts \cup {PyNone, PyTuple, PyUnprintable}

Keys ==
  {PyStr(TextA), PyStr(Text1), PyInt(1), PyBool(TRUE), PyStr(TextTrue), PyNone, PyUnprintable}

\* Keys and leaves of the dictionaries enumerated by shape, and the values
\* of the two-entry dictionaries enumerated by key.
CoreKeys == {PyStr(Text1), PyInt(1)}
CoreLeaves == {PyBool(TRUE), PyInt(1), PyFloat(Finite(FALSE, 25, 1)), PyStr(Text1)}
PairValues == CoreLeaves \cup {PyNone, PyList(<<PyBool(FALSE), PyStr(TextA)>>)}

\* Python's equality of dictionary keys: True == 1.
KeyEq(a, b) ==
  \/ a = b
  \/ ExtractI64(a).ok /\ ExtractI64(b).ok /\ ExtractI64(a).val = ExtractI64(b).val

\* Objects of exactly n nodes over CoreKeys and CoreLeaves.
RECURSIVE ObjsOfSize(_), SeqsOfSize(_), EntriesOfSize(_, _)
ObjsOfSize(n) ==
  (IF n = 1 THEN CoreLeaves ELSE {})
    \cup {PyList(s) : s \in SeqsOfSize(n - 1)}
    \cup {PyDict(e) : e \in EntriesOfSize(n - 1, {})}

\* Sequences of objects of n nodes in total.
SeqsOfSize(n) ==
  IF n = 0 THEN {<<>>}
  ELSE UNION {{<<p[1]>> \o p[2] : p \in ObjsOfSize(k) \X SeqsOfSize(n - k)} : k \in 1..n}

\* Dictionary entries of n nodes in total, with keys that differ from each
\* other and from the keys already used.
EntriesOfSize(n, used) ==
  IF n = 0 THEN {<<>>}
  ELSE UNION {{<<<<kk[2], p[1]>>>> \o p[2] :
                 p \in ObjsOfSize(kk[1]) \X EntriesOfSize(n - kk[1], used \cup {kk[2]})} :
              kk \in (1..n) \X {c \in CoreKeys : \A u \in used : ~KeyEq(c, u)}}

\* A scalar below a chain of single-element lists and single-entry dicts.
RECURSIVE Nest(_, _)
Nest(path, s) ==
  IF path = <<>> THEN s
  ELSE IF Head(path) = "list" THEN PyList(<<Nest(Tail(path), s)>>)
  ELSE PyDict(<<<<PyStr(TextA), Nest(Tail(path), s)>>>>)

\* {"a": 1, "b": [True, 2.5]}
ScenarioDict ==
  PyDict(<<<<PyStr(TextA), PyInt(1)>>,
           <<PyStr(TextB), PyList(<<PyBool(TRUE), PyFloat(Finite(FALSE, 25, 1))>>)>>>>)

YamlInputs ==
  UNION {{PyDict(e) : e \in EntriesOfSize(n, {})} : n \in 0..MaxNodes}
    \cup {PyDict(<<<<k, Nest(path, s)>>>>) :
            k \in Keys, path \in SeqsUpTo({"list", "dict"}, MaxNest), s \in Scalars}
    \cup {PyDict(<<<<kk[1], s1>>, <<kk[2], s2>>>>) :
            kk \in {q \in Keys \X Keys : ~KeyEq(q[1], q[2])}, s1 \in PairValues, s2 \in PairValues}
    \cup {ScenarioDict}

InitYaml ==
  /\ pc = "call"
  /\ obj \in YamlInputs
  /\ yaml_ret = NoRet
  /\ data = NotBytesLike
  /\ offsets = <<>>
  /\ fmts = <<>>
  /\ point_step = 0
  /\ pack_ret = NoRet

serialize_yaml ==
  /\ pc = "call"
  /\ yaml_ret' = SerializeYaml(obj)
  /\ pc' = "done"
  /\ UNCHANGED <<data, offsets, fmts, point_step, pack_ret, obj>>

NextYaml == serialize_yaml

SpecYaml == InitYaml /\ [][NextYaml]_vars

(***************************************************************************)
(* Properties of the serializer (checked under SpecYaml).                  *)
(***************************************************************************)
YamlDone == pc = "done"
Parsed == ParseMarkup(yaml_ret.markup)

Display(key) == PyStrOf(key).val
Printable(key) == PyStrOf(key).ok

\* Entry i is the last entry of the dictionary with its display text.
IsLastWithText(entries, i) ==
  \A k \in (i + 1)..Len(entries) : Display(entries[k][1]) # Display(entries[i][1])

Least(S) == CHOOSE x \in S : \A z \in S : x <= z

\* The entries of an emitted (parsed) mapping filed under a key.
EntriesAt(entries, key) == {j \in 1..Len(entries) : entries[j][1] = key}

\* Every value of the input tree together with what was emitted for it
\* (y, in the serde_yaml::Value) and what is read back for it (p): list
\* elements by position, dictionary values by the display text of the key.
RECURSIVE Aligned(_, _, _)
Aligned(o, y, p) ==
  {<<o, y, p>>} \cup
    (IF o.t = "list" /\ y.t = "Sequence" /\ p.t = "list"
          /\ Len(y.v) = Len(o.v) /\ Len(p.v) = Len(o.v)
     THEN UNION {Aligned(o.v[i], y.v[i], p.v[i]) : i \in 1..Len(o.v)}
     ELSE IF o.t = "dict" /\ y.t = "Mapping" /\ p.t = "dict"
     THEN UNION {LET yj == EntriesAt(y.v, YString(Display(o.v[i][1])))
                     pj == EntriesAt(p.v, PyStr(Display(o.v[i][1])))
                 IN  IF yj = {} \/ pj = {} THEN {}
                     ELSE Aligned(o.v[i][2], y.v[Least(yj)][2], p.v[Least(pj)][2]) :
                 i \in {k \in 1..Len(o.v) : IsLastWithText(o.v, k)}}
     ELSE {})

AlignedValues == Aligned(obj, yaml_ret.value, Parsed)

\* The containers were emitted as containers of the same extent, so that
\* Aligned reaches every value of the input.
SameShape(a) ==
  /\ a[1].t = "list" =>
       /\ a[2].t = "Sequence" /\ Len(a[2].v) = Len(a[1].v)
       /\ a[3].t = "list" /\ Len(a[3].v) = Len(a[1].v)
  /\ a[1].t = "dict" =>
       /\ a[2].t = "Mapping" /\ a[3].t = "dict"
       /\ \A i \in 1..Len(a[1].v) :
            /\ EntriesAt(a[2].v, YString(Display(a[1].v[i][1]))) # {}
            /\ EntriesAt(a[3].v, PyStr(Display(a[1].v[i][1]))) # {}

\* C7: every float of the input, at any depth, is emitted as the String of
\* its decimal rendering and is read back as that text, not as a number or
\* a boolean; {"a": 1, "b": [True, 2.5]} is emitted as a: 1, b: [true, '2.5'].
C7_FloatsAsText ==
  /\ (YamlDone /\ yaml_ret.kind = "Ok") =>
        \A a \in AlignedValues :
          /\ SameShape(a)
          /\ a[1].t = "float" =>
               /\ a[2] = YString(FloatToString(a[1].v))
               /\ a[3] = PyStr(FloatToString(a[1].v))
  /\ (YamlDone /\ obj = ScenarioDict) =>
        yaml_ret =
          YamlOk(YMapping(<<<<YString(TextA), YNumber(1)>>,
                            <<YString(TextB),
                              YSequence(<<YBool(TRUE), YString(<<"2", ".", "5">>)>>)>>>>),
                 MapNode(<<<<Plain(TextA), Plain(Text1)>>,
                           <<Plain(TextB),
                             SeqNode(<<Plain(<<"t", "r", "u", "e">>),
                                       Quoted(<<"2", ".", "5">>)>>)>>>>))

\* The float -inf inside a dictionary inside a list was emitted as "-inf".
C7_Witness ==
  /\ YamlDone /\ yaml_ret.kind = "Ok"
  /\ obj = PyDict(<<<<PyStr(TextA), Nest(<<"list", "dict">>, PyFloat(Infinity(TRUE)))>>>>)
  /\ <<PyFloat(Infinity(TRUE)), YString(<<"-", "i", "n", "f">>), PyStr(<<"-", "i", "n", "f">>)>>
       \in AlignedValues

\* C8: every input value that is not a mapping, sequence, boolean, integer,
\* float or text (None included) is emitted as null.
C8_AbsentAsNull ==
  (YamlDone /\ yaml_ret.kind = "Ok") =>
      \A a \in AlignedValues :
        a[1].t \notin {"dict", "list", "bool", "int", "float", "str"} =>
          (a[2] = YNull /\ a[3] = PyNone)

\* Built only from mappings with text keys, sequences, booleans, integers
\* and text.
RECURSIVE RoundTrippable(_)
RoundTrippable(o) ==
  CASE o.t \in {"bool", "int", "str"} -> TRUE
    [] o.t = "list" -> \A i \in 1..Len(o.v) : RoundTrippable(o.v[i])
    [] o.t = "dict" ->
         \A i \in 1..Len(o.v) : o.v[i][1].t = "str" /\ RoundTrippable(o.v[i][2])
    [] OTHER -> FALSE

RECURSIVE AllKeysPrintable(_)
AllKeysPrintable(o) ==
  CASE o.t = "list" -> \A i \in 1..Len(o.v) : AllKeysPrintable(o.v[i])
    [] o.t = "dict" ->
         \A i \in 1..Len(o.v) : Printable(o.v[i][1]) /\ AllKeysPrintable(o.v[i][2])
    [] OTHER -> TRUE

\* C10: when every key has a display text, serialization succeeds and each
\* input mapping is emitted with exactly one entry per distinct display
\* text of its keys, holding the value of the last input entry with that
\* text; so as many entries as the input when the texts are distinct and
\* fewer when two keys share a text.
C10_KeyTextCollision ==
  (YamlDone /\ AllKeysPrintable(obj)) =>
      /\ yaml_ret.kind = "Ok"
      /\ \A a \in AlignedValues :
           a[1].t = "dict" =>
             /\ a[2].t = "Mapping"
             /\ Len(a[2].v) = Cardinality({Display(a[1].v[i][1]) : i \in 1..Len(a[1].v)})
             /\ \A i \in 1..Len(a[1].v) :
                  IsLastWithText(a[1].v, i) =>
                    \E j \in 1..Len(a[2].v) :
                      /\ EntriesAt(a[2].v, YString(Display(a[1].v[i][1]))) = {j}
                      /\ a[2].v[j][2] = convert_pyany_to_yaml_value(a[1].v[i][2]).val

\* {1: True, "1": 1} was emitted as the single entry "1": 1.
C10_Witness ==
  /\ YamlDone
  /\ obj = PyDict(<<<<PyInt(1), PyBool(TRUE)>>, <<PyStr(Text1), PyInt(1)>>>>)
  /\ yaml_ret.kind = "Ok"
  /\ yaml_ret.value = YMapping(<<<<YString(Text1), YNumber(1)>>>>)
====
